---- MODULE Spec2Model ----
(***************************************************************************)
(* Model of the WebSocket handshake server of src/main.rs: a single        *)
(* threaded mio reactor (WebSocketServer::ready) that accepts connections, *)
(* parses the HTTP upgrade request incrementally (HttpParser callbacks     *)
(* driven by http_muncher) and answers with the 101 response.              *)
(*                                                                         *)
(* Bytes are modelled by one-character classes:                            *)
(*   "G"  the request line, "N" a CRLF, ":" the field/value separator,     *)
(*   "X"  a byte that is illegal in an HTTP header block,                  *)
(*   "m1" "m2" the lead and continuation byte of one two-byte UTF-8 char,  *)
(*   "F"  a byte of a WebSocket frame sent after the handshake,            *)
(*   every other string is an ordinary (ASCII) name or value byte.         *)
(***************************************************************************)
EXTENDS Integers, Sequences, FiniteSets, TLC

\* ------------------------------------------------------------------ bounds
\* Number of connections the peers ever open.
MaxConns == 2
\* Number of failed accepts (accept returning Err) the model follows.
MaxAcceptErrs == 1
\* Number of handshake responses followed per connection.
MaxWrites == 2

\* ------------------------------------------------------- program constants
SERVER_TOKEN == 0
InitialTokenCounter == 1
BufSize == 2048

Readable == "Readable"
Writable == "Writable"

AwaitingHandshake == "AwaitingHandshake"
HandshakeResponse == "HandshakeResponse"
Connected == "Connected"

\* Position of a ClientState in the handshake order.
Rank(s) == CASE s = AwaitingHandshake -> 0
             [] s = HandshakeResponse -> 1
             [] s = Connected -> 2

KeyHeader == <<"S", "K">>
MagicGuid == <<"258EAFA5-E914-47DA-95CA-C5AB0DC85B11">>

\* gen_key: base64(sha1(key ++ GUID)), kept as a symbolic term (sha1 and
\* base64 are taken to be collision free).
gen_key(key) == <<"base64", <<"sha1", key \o MagicGuid>>>>

\* The 101 response written by WebSocketClient::write, as its four segments.
ResponseFor(response_key) ==
    << "HTTP/1.1 101 Switching Protocols\r\n",
       "Connection: Upgrade\r\n",
       <<"Sec-WebSocket-Accept: ", response_key, "\r\n">>,
       "Upgrade: websocket\r\n\r\n" >>

\* ------------------------------------------------------------ peer scripts
\* Upgrade request with Sec-WebSocket-Key ("SK: ab"), then one frame byte.
GoodReq == <<"G", "S", "K", ":", "a", "b", "N", "U", ":", "w", "N", "N", "F">>
\* Upgrade request without Sec-WebSocket-Key.
NoKeyReq == <<"G", "U", ":", "w", "N", "N">>
\* Upgrade request whose header value holds a two-byte UTF-8 character.
Utf8Req == <<"G", "U", ":", "m1", "m2", "N", "N">>
\* Complete request that asks for no upgrade.
PlainReq == <<"G", "N">>
\* Malformed request.
BadReq == <<"G", "X">>

Requests == {GoodReq, NoKeyReq, Utf8Req, PlainReq, BadReq}

\* ------------------------------------------------------------- HttpParser
\* std::str::from_utf8(s) succeeds: every lead byte is followed by its
\* continuation byte and no continuation byte stands alone.
ValidUtf8(s) ==
    \A i \in 1..Len(s) :
        /\ s[i] = "m1" => (i < Len(s) /\ s[i + 1] = "m2")
        /\ s[i] = "m2" => (i > 1 /\ s[i - 1] = "m1")

None == [some |-> FALSE, val |-> <<>>]
Some(v) == [some |-> TRUE, val |-> v]

\* HttpParser { current_key: None, headers: {} }
NewHandler == [current_key |-> None, headers |-> <<>>, panicked |-> FALSE]

\* self.current_key = Some(from_utf8(s).unwrap().to_string())
StoreField(h, s) == [h EXCEPT !.current_key = Some(s)]

on_header_field(h, s) ==
    IF ~ValidUtf8(s) THEN [h EXCEPT !.panicked = TRUE]
    ELSE StoreField(h, s)

\* headers.insert(current_key.clone().unwrap(), from_utf8(s).unwrap().to_string())
InsertHeader(headers, k, v) ==
    [x \in (DOMAIN headers) \cup {k} |-> IF x = k THEN v ELSE headers[x]]

on_header_value(h, s) ==
    IF ~h.current_key.some \/ ~ValidUtf8(s) THEN [h EXCEPT !.panicked = TRUE]
    ELSE [h EXCEPT !.headers = InsertHeader(h.headers, h.current_key.val, s)]

\* --------------------------------------------- http_muncher::Parser::parse
\* Parser state: st is the tokenizer state, hmatch says the header name read
\* so far is "Upgrade" (here "U"), flagUpgrade is the F_UPGRADE flag of the
\* message being parsed, upgrade is what is_upgrade() returns.
NewParser == [st |-> "start", hmatch |-> FALSE, flagUpgrade |-> FALSE,
              upgrade |-> FALSE]

\* Parser::request(HttpParser { .. })
NewCodec == [p |-> NewParser, h |-> NewHandler]

\* The data callback for the run of bytes marked in the current chunk; a run
\* is handed over when its token ends or when the chunk ends, whichever comes
\* first.
Flush(c, run) ==
    IF run = <<>> THEN c
    ELSE IF c.p.st = "field" THEN [c EXCEPT !.h = on_header_field(c.h, run)]
    ELSE IF c.p.st = "value" THEN [c EXCEPT !.h = on_header_value(c.h, run)]
    ELSE c

RECURSIVE ParseFrom(_, _, _, _)
ParseFrom(c, chunk, i, run) ==
    IF c.h.panicked \/ c.p.st = "error" THEN c
    ELSE IF i > Len(chunk) THEN Flush(c, run)
    ELSE LET b == chunk[i] IN
      CASE c.p.st = "start" ->
             IF b = "N" THEN ParseFrom(c, chunk, i + 1, <<>>)
             ELSE IF b = "G"
               THEN ParseFrom([c EXCEPT !.p.st = "hdr_start",
                                        !.p.flagUpgrade = FALSE],
                              chunk, i + 1, <<>>)
             ELSE [c EXCEPT !.p.st = "error"]
        [] c.p.st = "hdr_start" ->
             IF b = "N"
               THEN \* headers complete: upgrade is decided here
                    LET d == [c EXCEPT !.p.st = "start",
                                       !.p.upgrade = c.p.flagUpgrade]
                    IN IF d.p.upgrade THEN d
                       ELSE ParseFrom(d, chunk, i + 1, <<>>)
             ELSE IF b \in {"X", ":", "G", "F", "m1", "m2"}
               THEN [c EXCEPT !.p.st = "error"]
             ELSE ParseFrom([c EXCEPT !.p.st = "field",
                                      !.p.hmatch = (b = "U")],
                            chunk, i + 1, <<b>>)
        [] c.p.st = "field" ->
             IF b = ":"
               THEN LET d == Flush(c, run) IN
                    ParseFrom([d EXCEPT !.p.st = "value",
                                        !.p.flagUpgrade = (c.p.flagUpgrade
                                                           \/ c.p.hmatch)],
                              chunk, i + 1, <<>>)
             ELSE IF b \in {"X", "N", "G", "F", "m1", "m2"}
               THEN [Flush(c, run) EXCEPT !.p.st = "error"]
             ELSE ParseFrom([c EXCEPT !.p.hmatch = FALSE],
                            chunk, i + 1, Append(run, b))
        [] c.p.st = "value" ->
             IF b = "N"
               THEN LET d == Flush(c, run) IN
                    ParseFrom([d EXCEPT !.p.st = "hdr_start"],
                              chunk, i + 1, <<>>)
             ELSE IF b = "X"
               THEN [Flush(c, run) EXCEPT !.p.st = "error"]
             ELSE ParseFrom(c, chunk, i + 1, Append(run, b))

\* self.http_parser.parse(&buf[0..len]); a zero-length slice tells the
\* tokenizer that the stream ended.
Parse(c, chunk) ==
    IF chunk = <<>>
      THEN IF c.p.st \in {"start", "error"} THEN c
           ELSE [c EXCEPT !.p.st = "error"]
      ELSE ParseFrom(c, chunk, 1, <<>>)

\* self.http_parser.is_upgrade()
is_upgrade(c) == c.p.upgrade

\* ------------------------------------------------------------------ state
VARIABLES
    running,        \* the process is alive (no panic has unwound main)
    fault,          \* the panic that ended the process: [kind, token]
    token_counter,  \* WebSocketServer.token_counter
    clients,        \* WebSocketServer.clients: Token -> WebSocketClient
    poller,         \* event loop registrations: Token -> armed interest set
    sock,           \* per connection: the peer's script, how far it was read,
                    \* and the socket's condition (open, closed, reset)
    pending,        \* connections waiting in the listener's backlog
    opened,         \* connections the peers have opened so far
    listenerEdge,   \* the edge-triggered listener has a readiness event due
    pc,             \* "poll": the reactor is in the poller; "read": read() is at
                    \* its first try_read; "more": at a later turn of its loop
    cur,            \* the token whose read() is running (SERVER_TOKEN: none)
    acceptLog,      \* accept outcomes in order: the token given, or -1 for Err
    hist            \* per connection: furthest state reached, a read error was
                    \* met, number of try_write calls and the last one's result

vars == <<running, fault, token_counter, clients, poller, sock, pending, opened,
          listenerEdge, pc, cur, acceptLog, hist>>

Tokens == 1..MaxConns

Min(a, b) == IF a < b THEN a ELSE b

NoFault == [kind |-> "none", token |-> SERVER_TOKEN]

\* NewClient without its initial interest (a faulty variant, tried against
\* C13)
NewClient_NoInterest == [http_parser |-> NewCodec,
                         interest |-> {},
                         state |-> AwaitingHandshake]

\* WebSocketClient::new
NewClient == [http_parser |-> NewCodec,
              interest |-> {Readable},
              state |-> AwaitingHandshake]

\* client.headers and http_parser's handler share one map (Rc<RefCell<..>>).
Headers(client) == client.http_parser.h.headers

NewSock(req) == [req |-> req, pos |-> 0, mode |-> "open"]

NoWrite == [response |-> <<>>, taken |-> 0]

NewHist == [reached |-> 0, readErr |-> FALSE, nwrites |-> 0, last |-> NoWrite]

\* the bytes read() has taken from the socket of t so far
Fed(t) == SubSeq(sock[t].req, 1, sock[t].pos)

\* main: the server struct and the listener's registration
Init ==
    /\ running = TRUE
    /\ fault = NoFault
    /\ token_counter = InitialTokenCounter
    /\ clients = <<>>
    /\ poller = <<>>
    /\ sock = <<>>
    /\ pending = 0
    /\ opened = 0
    /\ listenerEdge = FALSE
    /\ pc = "poll"
    /\ cur = SERVER_TOKEN
    /\ acceptLog = <<>>
    /\ hist = <<>>

\* A panic (unwrap on None/Err, unreachable!) unwinds through event_loop.run
\* and main: the process ends, nothing is re-registered.
Panic(kind, t) ==
    /\ running' = FALSE
    /\ fault' = [kind |-> kind, token |-> t]

\* Register that re-arms every token (a faulty variant, tried against C14)
Register_All(p, t, interest) ==
    [x \in (DOMAIN p) \cup {t} |-> interest]

\* event_loop.register / reregister with PollOpt::oneshot: arms the token for
\* one notification within the given interest.
Register(p, t, interest) ==
    [x \in (DOMAIN p) \cup {t} |-> IF x = t THEN interest ELSE p[x]]

\* a one-shot registration is disarmed by the notification it delivers
Disarm(p, t) == [p EXCEPT ![t] = {}]

Extend(f, t, v) == [x \in (DOMAIN f) \cup {t} |-> IF x = t THEN v ELSE f[x]]

\* NextCounter that skips a token (a faulty variant, tried against C19)
NextCounter_Skip(c) == c + 2

\* NextCounter with the increment left out (a faulty variant, tried against C3)
NextCounter_Stuck(c) == c

\* self.token_counter += 1
NextCounter(c) == c + 1

\* ------------------------------------------------------------ environment
\* A peer connects: the connection waits in the backlog and the listener
\* becomes readable (an edge).
PeerConnect ==
    /\ running
    /\ opened < MaxConns
    /\ opened' = opened + 1
    /\ pending' = pending + 1
    /\ listenerEdge' = TRUE
    /\ UNCHANGED <<running, fault, token_counter, clients, poller, sock, pc, cur,
                   acceptLog, hist>>

\* A connection is withdrawn from the backlog before it is accepted.
PeerDrop ==
    /\ running
    /\ pending > 0
    /\ pending' = pending - 1
    /\ UNCHANGED <<running, fault, token_counter, clients, poller, sock, opened,
                   listenerEdge, pc, cur, acceptLog, hist>>

\* The peer closes its side after its script: once the script is read, reads
\* return 0 bytes.
PeerClose(t) ==
    /\ running
    /\ t \in DOMAIN sock
    /\ sock[t].mode = "open"
    /\ sock' = [sock EXCEPT ![t].mode = "closed"]
    /\ UNCHANGED <<running, fault, token_counter, clients, poller, pending, opened,
                   listenerEdge, pc, cur, acceptLog, hist>>

\* The connection is reset: unread bytes are gone, reads and writes fail.
PeerReset(t) ==
    /\ running
    /\ t \in DOMAIN sock
    /\ sock[t].mode # "reset"
    /\ sock' = [sock EXCEPT ![t].mode = "reset"]
    /\ UNCHANGED <<running, fault, token_counter, clients, poller, pending, opened,
                   listenerEdge, pc, cur, acceptLog, hist>>

\* ------------------------------------- WebSocketServer::ready, SERVER_TOKEN
ListenerEvent ==
    /\ running
    /\ pc = "poll"
    /\ listenerEdge

\* accept() returned Ok(Some((sock, addr)))
AcceptOk(req) ==
    /\ ListenerEvent
    /\ pending > 0
    /\ LET new_token == token_counter IN
        /\ clients' = Extend(clients, new_token, NewClient)
        /\ token_counter' = NextCounter(token_counter)
        /\ poller' = Register(poller, new_token, {Readable})
        /\ sock' = Extend(sock, new_token, NewSock(req))
        /\ hist' = Extend(hist, new_token, NewHist)
        /\ acceptLog' = Append(acceptLog, new_token)
    /\ pending' = pending - 1
    /\ listenerEdge' = FALSE
    /\ UNCHANGED <<running, fault, opened, pc, cur>>

\* AcceptErr that consumes a token (a faulty variant, tried against C15)
AcceptErr_TakesToken ==
    /\ ListenerEvent
    /\ Cardinality({i \in 1..Len(acceptLog) : acceptLog[i] = -1}) < MaxAcceptErrs
    /\ acceptLog' = Append(acceptLog, -1)
    /\ token_counter' = NextCounter(token_counter)
    /\ listenerEdge' = FALSE
    /\ UNCHANGED <<running, fault, clients, poller, sock, pending, opened, pc,
                   cur, hist>>

\* accept() returned Err(e): println and return
AcceptErr ==
    /\ ListenerEvent
    /\ Cardinality({i \in 1..Len(acceptLog) : acceptLog[i] = -1}) < MaxAcceptErrs
    /\ acceptLog' = Append(acceptLog, -1)
    /\ listenerEdge' = FALSE
    /\ UNCHANGED <<running, fault, token_counter, clients, poller, sock, pending,
                   opened, pc, cur, hist>>

\* accept() returned Ok(None): unreachable!()
AcceptNone ==
    /\ ListenerEvent
    /\ pending = 0
    /\ Panic("AcceptNone", SERVER_TOKEN)
    /\ listenerEdge' = FALSE
    /\ UNCHANGED <<token_counter, clients, poller, sock, pending, opened, pc, cur,
                   acceptLog, hist>>

\* ------------------------------ WebSocketServer::ready, readable, a client
\* bytes of the script are still to be read, or the peer closed or reset
SockReadable(t) ==
    sock[t].pos < Len(sock[t].req) \/ sock[t].mode \in {"closed", "reset"}

\* the poller delivers the readable event; clients.get_mut(&token).unwrap()
\* finds the connection and client.read() starts
ReadableEvent(t) ==
    /\ running
    /\ pc = "poll"
    /\ t \in DOMAIN poller
    /\ Readable \in poller[t]
    /\ SockReadable(t)
    /\ t \in DOMAIN clients
    /\ poller' = Disarm(poller, t)
    /\ pc' = "read"
    /\ cur' = t
    /\ UNCHANGED <<running, fault, token_counter, clients, sock, pending, opened,
                   listenerEdge, acceptLog, hist>>

\* InterestAfterUpgrade with the remove left out (a faulty variant, tried
\* against C2)
InterestAfterUpgrade_KeepReadable(interest) == interest \cup {Writable}

\* self.interest.remove(readable()); self.interest.insert(writable())
InterestAfterUpgrade(interest) == (interest \ {Readable}) \cup {Writable}

\* what read() does to the client once the parser reports an upgrade
UpgradeSeen(client) ==
    [client EXCEPT !.state = HandshakeResponse,
                   !.interest = InterestAfterUpgrade(client.interest)]

Furthest(h, client) ==
    [h EXCEPT !.reached = IF Rank(client.state) > @ THEN Rank(client.state) ELSE @]

\* One turn of read()'s loop in which try_read returned Ok(Some(len)) with the
\* next len bytes of the peer's script (len = 0 once a closed peer's script is
\* exhausted): the chunk is parsed; on is_upgrade() the state and interest
\* change, the loop breaks and ready() re-registers the client; otherwise the
\* loop goes on.
ReadSome(len) ==
    /\ running
    /\ pc \in {"read", "more"}
    /\ sock[cur].mode # "reset"
    /\ len <= BufSize
    /\ IF sock[cur].pos < Len(sock[cur].req)
         THEN len >= 1 /\ sock[cur].pos + len <= Len(sock[cur].req)
         ELSE len = 0 /\ sock[cur].mode = "closed"
    /\ LET chunk == SubSeq(sock[cur].req, sock[cur].pos + 1, sock[cur].pos + len)
           parsed == Parse(clients[cur].http_parser, chunk)
           fedClient == [clients[cur] EXCEPT !.http_parser = parsed]
       IN /\ sock' = [sock EXCEPT ![cur].pos = @ + len]
          /\ IF parsed.h.panicked
               THEN /\ Panic("Utf8", cur)
                    /\ UNCHANGED <<clients, poller, pc, hist, cur>>
             ELSE IF is_upgrade(parsed)
               THEN LET after == UpgradeSeen(fedClient) IN
                    /\ clients' = [clients EXCEPT ![cur] = after]
                    /\ poller' = Register(poller, cur, after.interest)
                    /\ hist' = [hist EXCEPT ![cur] = Furthest(@, after)]
                    /\ pc' = "poll"
                    /\ cur' = SERVER_TOKEN
                    /\ UNCHANGED <<running, fault>>
             ELSE /\ clients' = [clients EXCEPT ![cur] = fedClient]
                  /\ pc' = "more"
                  /\ UNCHANGED <<running, fault, poller, hist, cur>>
    /\ UNCHANGED <<token_counter, pending, opened, listenerEdge, acceptLog>>

\* try_read returned Ok(None) after the bytes that had arrived were read:
\* break, and ready() re-registers the client
ReadWouldBlock ==
    /\ running
    /\ pc = "more"
    /\ sock[cur].mode = "open"
    /\ poller' = Register(poller, cur, clients[cur].interest)
    /\ pc' = "poll"
    /\ cur' = SERVER_TOKEN
    /\ UNCHANGED <<running, fault, token_counter, clients, sock, pending, opened,
                   listenerEdge, acceptLog, hist>>

\* AfterReadError with the reregister left out (a faulty variant, tried
\* against C12)
AfterReadError_NoRearm(p, t, client) == p

\* what ready() does with a client whose read() met Err(e)
AfterReadError(p, t, client) == Register(p, t, client.interest)

\* try_read returned Err(e): println and return; ready() goes on to reregister
ReadErr ==
    /\ running
    /\ pc \in {"read", "more"}
    /\ sock[cur].mode = "reset"
    /\ hist' = [hist EXCEPT ![cur].readErr = TRUE]
    /\ poller' = AfterReadError(poller, cur, clients[cur])
    /\ pc' = "poll"
    /\ cur' = SERVER_TOKEN
    /\ UNCHANGED <<running, fault, token_counter, clients, sock, pending, opened,
                   listenerEdge, acceptLog>>

\* ------------------------------ WebSocketServer::ready, writable, a client
WritableEvent(t) ==
    /\ running
    /\ pc = "poll"
    /\ t \in DOMAIN poller
    /\ Writable \in poller[t]
    /\ t \in DOMAIN clients

\* headers.get("Sec-WebSocket-Key").unwrap() on a map without the key
WriteMissingKey(t) ==
    /\ WritableEvent(t)
    /\ KeyHeader \notin DOMAIN Headers(clients[t])
    /\ Panic("MissingKey", t)
    /\ poller' = Disarm(poller, t)
    /\ UNCHANGED <<token_counter, clients, sock, pending, opened, listenerEdge, pc,
                   cur, acceptLog, hist>>

\* self.socket.try_write(response.as_bytes()).unwrap() on Err(e)
WriteErr(t) ==
    /\ WritableEvent(t)
    /\ KeyHeader \in DOMAIN Headers(clients[t])
    /\ sock[t].mode = "reset"
    /\ Panic("WriteError", t)
    /\ poller' = Disarm(poller, t)
    /\ UNCHANGED <<token_counter, clients, sock, pending, opened, listenerEdge, pc,
                   cur, acceptLog, hist>>

\* self.interest.remove(writable()); self.interest.insert(readable())
InterestAfterWrite(interest) == (interest \ {Writable}) \cup {Readable}

\* the response write() formats from the stored Sec-WebSocket-Key
ResponseOf(client) == ResponseFor(gen_key(Headers(client)[KeyHeader]))

\* what write() does to the client after try_write returned Ok(_)
Wrote(client) ==
    [client EXCEPT !.state = Connected,
                   !.interest = InterestAfterWrite(client.interest)]

\* Segments of the response the socket may take in one try_write: none
\* (Ok(None)), a part, or all of it.
WriteOutcomes(response) == {0, 2, Len(response)}

\* write() with try_write returning Ok(_), then ready() re-registers
WriteOk(t, n) ==
    /\ WritableEvent(t)
    /\ KeyHeader \in DOMAIN Headers(clients[t])
    /\ sock[t].mode # "reset"
    /\ hist[t].nwrites < MaxWrites
    /\ n \in WriteOutcomes(ResponseOf(clients[t]))
    /\ LET after == Wrote(clients[t]) IN
        /\ clients' = [clients EXCEPT ![t] = after]
        /\ poller' = Register(poller, t, after.interest)
        /\ hist' = [hist EXCEPT ![t] =
                      Furthest([@ EXCEPT !.nwrites = @ + 1,
                                         !.last = [response |-> ResponseOf(clients[t]),
                                                   taken |-> n]], after)]
    /\ UNCHANGED <<running, fault, token_counter, sock, pending, opened,
                   listenerEdge, pc, cur, acceptLog>>

\* ------------------------------------------------------------------ system
\* the longest script, and the number of segments of a response
MaxLen == Len(GoodReq)
ResponseLen == Len(ResponseFor(<<>>))

Environment ==
    \/ PeerConnect
    \/ PeerDrop
    \/ \E t \in Tokens : PeerClose(t)
    \/ \E t \in Tokens : PeerReset(t)

Reactor ==
    \/ \E req \in Requests : AcceptOk(req)
    \/ AcceptErr
    \/ AcceptNone
    \/ \E t \in Tokens : ReadableEvent(t)
    \/ \E len \in 0..MaxLen : ReadSome(len)
    \/ ReadWouldBlock
    \/ ReadErr
    \/ \E t \in Tokens : WriteMissingKey(t)
    \/ \E t \in Tokens : WriteErr(t)
    \/ \E t \in Tokens : \E n \in 0..ResponseLen : WriteOk(t, n)

Next == Environment \/ Reactor

Spec == Init /\ [][Next]_vars

\* The event loop keeps delivering the events that are due and a handler that
\* was entered keeps running: every readiness event of an armed token is
\* eventually delivered and handled.
FairSpec ==
    /\ Spec
    /\ \A t \in Tokens : SF_vars(ReadableEvent(t))
    /\ \A t \in Tokens : SF_vars(WriteMissingKey(t))
    /\ \A t \in Tokens : SF_vars(WriteErr(t))
    /\ \A t \in Tokens : SF_vars(\E n \in 0..ResponseLen : WriteOk(t, n))
    /\ WF_vars(\E len \in 0..MaxLen : ReadSome(len))
    /\ WF_vars(ReadWouldBlock)
    /\ WF_vars(ReadErr)
    /\ WF_vars(\E req \in Requests : AcceptOk(req))
    /\ WF_vars(AcceptErr)
    /\ WF_vars(AcceptNone)

\* ------------------------------------------------------------------ claims
\* The interest a connection holds in its state: Readable while it awaits the
\* handshake or is connected, Writable while the response is due.
InterestOf(state) == IF state = HandshakeResponse THEN {Writable} ELSE {Readable}

\* The result of feeding the bytes to a fresh parser in one call.
OneShot(bytes) == ParseFrom(NewCodec, bytes, 1, <<>>)

IsToken(x) == x # -1
Accepted == SelectSeq(acceptLog, IsToken)

\* C1: the handshake state of every connection only moves forward: it is
\* never behind the furthest state the connection has reached, so a connection
\* that was Connected stays Connected.
C1_ForwardOnly ==
    \A t \in DOMAIN clients : Rank(clients[t].state) >= hist[t].reached

\* C2: the interest of every connection, and the interest it was last
\* (re-)registered with while that registration is armed, is exactly
\* {Readable} in AwaitingHandshake and Connected and exactly {Writable} in
\* HandshakeResponse: never empty, never both.
C2_RearmInterest ==
    \A t \in DOMAIN clients :
        /\ clients[t].interest = InterestOf(clients[t].state)
        /\ poller[t] # {} => poller[t] = InterestOf(clients[t].state)

\* C2 witness: a connection went through a read that saw the upgrade and a
\* write, and is armed again for Readable, while another waits for Writable.
C2_Witness ==
    \E t, u \in DOMAIN clients :
        /\ clients[t].state = Connected
        /\ hist[t].nwrites >= 1
        /\ poller[t] = {Readable}
        /\ clients[u].state = HandshakeResponse
        /\ poller[u] = {Writable}

\* C3: the tokens given to accepted connections are pairwise distinct, never
\* the listener's token and strictly increasing in accept order; the counter
\* counts the successful accepts only, and the registry holds those tokens.
C3_TokenAllocation ==
    /\ \A i \in 1..Len(Accepted) : Accepted[i] # SERVER_TOKEN
    /\ \A i, j \in 1..Len(Accepted) : i < j => Accepted[i] < Accepted[j]
    /\ token_counter = InitialTokenCounter + Len(Accepted)
    /\ DOMAIN clients = {Accepted[i] : i \in 1..Len(Accepted)}

\* C3 witness: two connections were accepted and both are in the registry.
C3_Witness ==
    /\ Len(Accepted) = 2
    /\ Cardinality(DOMAIN clients) = 2

\* The handshake of t is still to be completed: t was accepted, its peer sends
\* the upgrade request with Sec-WebSocket-Key, and t has not been Connected.
HandshakeDue(t) ==
    /\ t \in DOMAIN clients
    /\ sock[t].req = GoodReq
    /\ hist[t].reached < Rank(Connected)

\* t is Connected with Readable interest and the last bytes handed to the
\* socket are the 101 response for the Sec-WebSocket-Key of its header map.
HandshakeDone(t) ==
    /\ t \in DOMAIN clients
    /\ clients[t].state = Connected
    /\ clients[t].interest = {Readable}
    /\ KeyHeader \in DOMAIN Headers(clients[t])
    /\ hist[t].last.response = ResponseFor(gen_key(Headers(clients[t])[KeyHeader]))

\* The claim does not cover t: its socket failed (the peer reset it), the
\* process was ended by a fault met outside the handling of t, or the reactor
\* is held inside the read() of another connection.
Excused(t) ==
    \/ t \in DOMAIN sock /\ sock[t].mode = "reset"
    \/ ~running /\ fault.token # t
    \/ running /\ pc # "poll" /\ cur # t

\* C4: a connection whose peer sends a complete upgrade request with
\* Sec-WebSocket-Key, and whose socket does not fail, eventually is Connected
\* with Readable interest, having written the 101 response for the stored key.
C4_HandshakeCompletes ==
    \A t \in Tokens : HandshakeDue(t) ~> (HandshakeDone(t) \/ Excused(t))

\* What became of the bytes read from t so far: the process panicked in the
\* parser callbacks, the connection reached HandshakeResponse, or it still
\* awaits the handshake.
ChunkedOutcome(t) ==
    IF fault.kind = "Utf8" /\ fault.token = t THEN "panic"
    ELSE IF hist[t].reached >= Rank(HandshakeResponse) THEN "upgrade"
    ELSE "awaiting"

\* The same for bytes fed in one call.
Outcome(c) ==
    IF c.h.panicked THEN "panic"
    ELSE IF is_upgrade(c) THEN "upgrade"
    ELSE "awaiting"

\* C5: however the request bytes are split across reads, the outcome is that
\* of the same bytes fed in one call: a split brings no failure the whole
\* request does not have, the connection has reached HandshakeResponse exactly
\* if the bytes read so far hold a complete well-formed upgrade request, and
\* while it awaits the handshake its interest is Readable.
C5_ChunkingOutcome ==
    \A t \in DOMAIN clients :
        /\ ChunkedOutcome(t) = "panic" => Outcome(OneShot(sock[t].req)) = "panic"
        /\ ChunkedOutcome(t) # "panic" => ChunkedOutcome(t) = Outcome(OneShot(Fed(t)))
        /\ clients[t].state = AwaitingHandshake => clients[t].interest = {Readable}

\* C6: once the header block of a request has been read (the parser reports
\* the upgrade, or the whole script was read), the header map equals the map
\* built when the request is fed in one call, whatever the split was.
C6_HeaderMapChunkingIndependent ==
    \A t \in DOMAIN clients :
        (running /\ (is_upgrade(clients[t].http_parser)
                     \/ sock[t].pos = Len(sock[t].req)))
            => Headers(clients[t]) = OneShot(sock[t].req).h.headers

\* C7: a write event on a connection without Sec-WebSocket-Key leaves the
\* reactor running.
C7_MissingKeyRecoverable == fault.kind = "MissingKey" => running

\* C8: a failed socket write of the response leaves the reactor running.
C8_WriteFailureRecoverable == fault.kind = "WriteError" => running

\* C9: a connection whose read met a socket error is gone from the registry
\* and holds no registration with the poller.
C9_ReadErrorAbandons ==
    \A t \in DOMAIN hist :
        hist[t].readErr => (t \notin DOMAIN clients /\ t \notin DOMAIN poller)

\* C10: an accept that finds no connection leaves the reactor running.
C10_AcceptNoneTransient == fault.kind = "AcceptNone" => running

\* C11: every run of a connection's read handler ends: once read() was
\* entered, the reactor is eventually back in the poller (or the process has
\* ended), whatever the socket reads return.
C11_ReadTerminates == (running /\ pc # "poll") ~> (pc = "poll" \/ ~running)

\* C12: whenever the reactor is back in the poller, every connection is armed
\* one-shot with its current, non-empty interest: each handled read or write
\* event, also a read that ended in a socket error, was followed by the
\* re-registration of its connection.
C12_RearmedAfterEvent ==
    (running /\ pc = "poll") =>
        \A t \in DOMAIN clients :
            /\ t \in DOMAIN poller
            /\ poller[t] # {}
            /\ poller[t] = clients[t].interest

\* C12 witness: the reactor is in the poller after a read of one connection
\* ended in a socket error and after a write on another, both armed again.
C12_Witness ==
    /\ running /\ pc = "poll"
    /\ \E t, u \in DOMAIN clients :
        /\ hist[t].readErr
        /\ poller[t] = clients[t].interest
        /\ hist[u].nwrites >= 1
        /\ poller[u] = {Readable}

\* The step is a successful accept: it logs the token it gave.
AcceptSucceeded ==
    /\ Len(acceptLog') = Len(acceptLog) + 1
    /\ acceptLog'[Len(acceptLog')] # -1

\* The step is a failed accept.
AcceptFailed ==
    /\ Len(acceptLog') = Len(acceptLog) + 1
    /\ acceptLog'[Len(acceptLog')] = -1

\* What a successful accept does: one new registry entry under the token the
\* counter held, fresh and armed one-shot for Readable, all else as before.
AcceptEffect ==
    LET new_token == token_counter IN
    /\ new_token \notin DOMAIN clients
    /\ DOMAIN clients' = DOMAIN clients \cup {new_token}
    /\ clients'[new_token].state = AwaitingHandshake
    /\ clients'[new_token].interest = {Readable}
    /\ Headers(clients'[new_token]) = <<>>
    /\ DOMAIN poller' = DOMAIN poller \cup {new_token}
    /\ poller'[new_token] = {Readable}
    /\ \A u \in DOMAIN clients : clients'[u] = clients[u] /\ poller'[u] = poller[u]

\* C13: a successful accept adds exactly one registry entry, under the newly
\* allocated token, in AwaitingHandshake with interest {Readable} and an empty
\* header map, registered one-shot for Readable; every entry that existed
\* before is unchanged.
C13_AcceptAddsOneEntry == [][AcceptSucceeded => AcceptEffect]_vars

\* C13 witness: the second accept has just added a fresh entry next to a
\* connection that has already completed its handshake.
C13_Witness ==
    /\ Len(Accepted) = 2
    /\ clients[2] = NewClient
    /\ poller[2] = {Readable}
    /\ clients[1].state = Connected

\* The step belongs to the handling of an event of client token t: the
\* delivery of its readable event, a turn of its read(), or its write().
HandlesEventOf(t) ==
    \/ ReadableEvent(t)
    \/ pc # "poll" /\ cur = t /\ (\E len \in 0..MaxLen : ReadSome(len))
    \/ pc # "poll" /\ cur = t /\ ReadWouldBlock
    \/ pc # "poll" /\ cur = t /\ ReadErr
    \/ WriteMissingKey(t)
    \/ WriteErr(t)
    \/ \E n \in 0..ResponseLen : WriteOk(t, n)

C15_AcceptErrorOnlyLogged ==
    [][/\ AcceptFailed =>
            /\ token_counter' = token_counter
            /\ clients' = clients
            /\ poller' = poller
            /\ running'
            /\ pc' = "poll"
       /\ (AcceptSucceeded /\ \E i \in 1..Len(acceptLog) : acceptLog[i] = -1)
            => (AcceptEffect /\ running')]_vars

\* C15 witness: an accept failed and a later accept succeeded.
C15_Witness ==
    /\ running
    /\ \E i, j \in 1..Len(acceptLog) : i < j /\ acceptLog[i] = -1 /\ acceptLog[j] # -1
    /\ Cardinality(DOMAIN clients) = Len(Accepted)

\* read() of the current connection is at the end of a closed peer's stream.
ReadAtEndOfStream ==
    /\ pc # "poll"
    /\ sock[cur].mode = "closed"
    /\ sock[cur].pos = Len(sock[cur].req)

\* C16: connections that became pending together are eventually all taken
\* from the backlog. (Behaviours in which the process ends, an accept fails or
\* a read() meets the end of a closed stream are not held against the claim.)
C16_PendingEventuallyAccepted ==
    (running /\ pending >= 2)
        ~> \/ pending = 0
           \/ ~running
           \/ ReadAtEndOfStream
           \/ \E i \in 1..Len(acceptLog) : acceptLog[i] = -1

\* C17: the handshake response is written to a connection's socket at most
\* once.
C17_ResponseAtMostOnce == \A t \in DOMAIN hist : hist[t].nwrites <= 1

\* C18: a connection is Connected only if its socket took the complete
\* handshake response.
C18_ConnectedOnlyAfterFullWrite ==
    \A t \in DOMAIN clients :
        clients[t].state = Connected =>
            hist[t].last.taken = Len(hist[t].last.response)

\* C19: the registry's key set is exactly 1 .. token_counter-1: it never holds
\* the listener's token, and every token registered with the poller, and every
\* token whose read() is running, has its entry.
C19_RegistryKeys ==
    /\ DOMAIN clients = 1..(token_counter - 1)
    /\ SERVER_TOKEN \notin DOMAIN clients
    /\ DOMAIN poller \subseteq DOMAIN clients
    /\ pc # "poll" => cur \in DOMAIN clients

\* C19 witness: two connections are registered, and events of both have been
\* delivered and found their entries.
C19_Witness ==
    /\ DOMAIN clients = {1, 2}
    /\ token_counter = 3
    /\ sock[1].pos > 0
    /\ sock[2].pos > 0

====
